---------------------------- MODULE Spec2Model ----------------------------
(***************************************************************************)
(* Model of the VXP BO105 track-and-balance trainer: the measurement       *)
(* generator (vxp/sim.py), the limit evaluator and the correction solver   *)
(* (vxp/solver.py), the session of the screens (vxp/ui.py) and the data    *)
(* flow of successive runs: measure, solve, update settings, measure.      *)
(*                                                                         *)
(* Numbers are fixed point:                                                *)
(*   track           1/240 mm        (TrackPerMm)                          *)
(*   amplitude       1/10000 IPS     (AmpPerIps)                           *)
(*   angles          1/4 degree      (UnitsPerDeg)                         *)
(*   pitch_flats     quarter flats,  trim_mm  half millimetres,            *)
(*   bolt_g          grams,          suggestions of the solver: quarter    *)
(*                   turns, quarter millimetres and grams.                 *)
(* math.sin / math.cos / math.atan2 are a one-degree sine table with       *)
(* linear interpolation.  Python's round() is round-half-even.  The float  *)
(* operator % is modelled with the rounding of its result to the double    *)
(* grid, at a shortened mantissa (TLC's integers are 32 bit): the grid of  *)
(* a binade is twice as coarse as the grid of the binade below it.         *)
(***************************************************************************)
EXTENDS Integers, Sequences, FiniteSets, TLC

VARIABLES
    adjustments,   \* the caller's settings: regime -> field -> blade -> value
    aircraft,      \* the caller's aircraft mapping (empty: None or {})
    meas,          \* the caller's mapping regime key -> Measurement
    call,          \* the last core function called, with its scalar arguments
    ret,           \* what that call returned
    vxp_screen,             \* st.session_state of ui.py: the screen shown
    vxp_run,                \* the current run
    vxp_runs,               \* run -> regime -> Measurement
    vxp_completed_by_run,   \* run -> set of regimes acquired
    vxp_view_run,           \* the run chosen in a run selector
    vxp_pending_regime,     \* the regime of the acquisition dialog, or None
    vxp_acq_done            \* the dialog shows its DONE summary

session ==
    <<vxp_screen, vxp_run, vxp_runs, vxp_completed_by_run, vxp_view_run,
      vxp_pending_regime, vxp_acq_done>>

vars == <<adjustments, aircraft, meas, call, ret, session>>

---------------------------------------------------------------------------
(* Units *)

TrackPerMm == 6 * 40
AmpPerIps == 100 * 100
UnitsPerDeg == 2 * 2
TrigScale == 10 * 100

Deg(d) == d * UnitsPerDeg
Mm(x) == x * TrackPerMm
\* tenths of a millimetre, as the baseline tables are written
Mm10(x) == x * (TrackPerMm \div 10)

Max(a, b) == IF a >= b THEN a ELSE b
Min(a, b) == IF a <= b THEN a ELSE b
Abs(a) == IF a >= 0 THEN a ELSE -a

\* Python's round(n/d) for d > 0: to the nearest integer, ties to the even one.
RoundHalfEven(n, d) ==
    LET q == n \div d
        r == n - q * d
    IN IF 2 * r < d THEN q
       ELSE IF 2 * r > d THEN q + 1
       ELSE IF q % 2 = 0 THEN q ELSE q + 1

\* floor of the square root of n >= 0
RECURSIVE SqrtBits(_, _, _)
SqrtBits(n, s, bit) ==
    IF bit = 0 THEN s
    ELSE IF (s + bit) * (s + bit) <= n THEN SqrtBits(n, s + bit, bit \div 2)
         ELSE SqrtBits(n, s, bit \div 2)

Isqrt(n) == SqrtBits(n, 0, 16384)

---------------------------------------------------------------------------
(* vxp/sim.py, vxp/solver.py: constants *)

BLADES == <<"BLU", "GRN", "YEL", "RED">>
REGIMES == <<"GROUND", "HOVER", "HORIZ">>

Blades == {BLADES[i] : i \in 1..Len(BLADES)}
Regimes == {REGIMES[i] : i \in 1..Len(REGIMES)}

BLADE_CLOCK_DEG == [b \in Blades |->
    CASE b = "YEL" -> Deg(0) [] b = "RED" -> Deg(90)
      [] b = "BLU" -> Deg(180) [] b = "GRN" -> Deg(270)]

BO105_DISPLAY_RPM == 424
FLATS_PER_TURN == 6
PITCHLINK_MM_PER_TURN == 10
TRIMTAB_MMTRACK_PER_MM == 15

\* IPS per gram, in amplitude units per gram: 0.0025 and 0.0010 IPS/g
IPS_PER_GRAM == [r \in Regimes |-> IF r = "GROUND" THEN 25 ELSE 10]

BASE_TRACK == [r \in Regimes |->
    CASE r = "GROUND" ->
           [b \in Blades |-> CASE b = "BLU" -> Mm10(56) [] b = "GRN" -> Mm10(-23)
                               [] b = "YEL" -> 0 [] b = "RED" -> Mm10(-44)]
      [] r = "HOVER" ->
           [b \in Blades |-> CASE b = "BLU" -> Mm10(71) [] b = "GRN" -> Mm10(-38)
                               [] b = "YEL" -> 0 [] b = "RED" -> Mm10(-47)]
      [] r = "HORIZ" ->
           [b \in Blades |-> CASE b = "BLU" -> Mm10(49) [] b = "GRN" -> Mm10(-23)
                               [] b = "YEL" -> 0 [] b = "RED" -> Mm10(-39)]]

\* (amplitude, phase): 0.45 @ 345, 0.25 @ 180, 0.18 @ 150
BASE_BAL == [r \in Regimes |->
    CASE r = "GROUND" -> <<4500, Deg(345)>>
      [] r = "HOVER" -> <<2500, Deg(180)>>
      [] r = "HORIZ" -> <<1800, Deg(150)>>]

default_adjustments == [r \in Regimes |->
    [pitch_flats |-> [b \in Blades |-> 0],
     trim_mm |-> [b \in Blades |-> 0],
     bolt_g |-> [b \in Blades |-> 0]]]

---------------------------------------------------------------------------
(* Trigonometry: math.sin, math.cos, math.atan2 *)

\* 1000 * sin(d degrees), d = 0..90
SinTab == <<
    0, 17, 35, 52, 70, 87, 105, 122, 139, 156, 174, 191, 208,
    225, 242, 259, 276, 292, 309, 326, 342, 358, 375, 391, 407, 423,
    438, 454, 469, 485, 500, 515, 530, 545, 559, 574, 588, 602, 616,
    629, 643, 656, 669, 682, 695, 707, 719, 731, 743, 755, 766, 777,
    788, 799, 809, 819, 829, 839, 848, 857, 866, 875, 883, 891, 899,
    906, 914, 921, 927, 934, 940, 946, 951, 956, 961, 966, 970, 974,
    978, 982, 985, 988, 990, 993, 995, 996, 998, 999, 999, 1000, 1000 >>

SinD(d) == SinTab[d + 1]
CosD(d) == SinTab[90 - d + 1]

\* sine of an angle a in 0..Deg(90), interpolated inside its degree
SinQ(a) ==
    LET d == a \div UnitsPerDeg
        f == a % UnitsPerDeg
    IN IF f = 0 THEN SinD(d)
       ELSE SinD(d) + RoundHalfEven((SinD(d + 1) - SinD(d)) * f, UnitsPerDeg)

\* TrigScale * sin(a), any angle a
Sin(a) ==
    LET m == a % Deg(360)
    IN IF m <= Deg(90) THEN SinQ(m)
       ELSE IF m <= Deg(180) THEN SinQ(Deg(180) - m)
       ELSE IF m <= Deg(270) THEN -SinQ(m - Deg(180))
       ELSE -SinQ(Deg(360) - m)

Cos(a) == Sin(Deg(90) - a)

\* b * cos(d) - a * sin(d): positive while the vector (a, b) lies above d degrees
Cross(b, a, d) == b * CosD(d) - a * SinD(d)

\* the last whole degree at or below the vector (a, b), between lo and hi
RECURSIVE AtanSearch(_, _, _, _)
AtanSearch(b, a, lo, hi) ==
    IF hi - lo <= 1 THEN lo
    ELSE LET mid == (lo + hi) \div 2
         IN IF Cross(b, a, mid) >= 0 THEN AtanSearch(b, a, mid, hi)
            ELSE AtanSearch(b, a, lo, mid)

\* angle in 0..Deg(90) of the vector (a, b), a >= 0, b >= 0, not both 0,
\* measured from the first axis
AtanQ(b, a) ==
    LET d == AtanSearch(b, a, 0, 91)
    IN IF d = 90 THEN Deg(90)
       ELSE Deg(d) + RoundHalfEven(UnitsPerDeg * Cross(b, a, d),
                                   Cross(b, a, d) - Cross(b, a, d + 1))

\* math.degrees(math.atan2(y, x)), in -Deg(180)..Deg(180)
Atan2Deg(y, x) ==
    IF x = 0 /\ y = 0 THEN 0
    ELSE LET q == AtanQ(Abs(y), Abs(x))
         IN IF x >= 0 THEN (IF y >= 0 THEN q ELSE -q)
            ELSE (IF y >= 0 THEN Deg(180) - q ELSE -(Deg(180) - q))

---------------------------------------------------------------------------
(* Floats: the grid of representable values and Python's float % *)

\* spacing of the representable values around v (in angle units): the values
\* of the binade of 90 are all representable, each binade above doubles it
Ulp(v) ==
    IF Abs(v) >= Deg(256) THEN 4
    ELSE IF Abs(v) >= Deg(128) THEN 2
    ELSE 1

\* nearest representable value, ties to even
ToFloat(v) == Ulp(v) * RoundHalfEven(v, Ulp(v))

\* Python's t % 360.0: fmod(t, 360.0) is exact and has the sign of t; when it
\* is negative, 360.0 is added, and that sum is rounded to the grid
PyMod360(t) ==
    LET r == t % Deg(360)
    IN IF t >= 0 \/ r = 0 THEN r ELSE ToFloat(r)

---------------------------------------------------------------------------
(* vxp/types.py *)

BalanceReading(amp, phase, rpm) ==
    [amp_ips |-> amp, phase_deg |-> phase, rpm |-> rpm]

Measurement(regime, balance, track) ==
    [regime |-> regime, balance |-> balance, track_mm |-> track]

---------------------------------------------------------------------------
(* vxp/sim.py: the measurement generator *)

\* unit vector of a clock angle, scaled by TrigScale
_vec_from_clock_deg(theta_deg) ==
    LET phi == Deg(90) - theta_deg
    IN <<Cos(phi), Sin(phi)>>

_clock_deg_from_vec(v) ==
    LET phi == ToFloat(Atan2Deg(v[2], v[1]))
    IN PyMod360(ToFloat(Deg(90) - phi))

NoAircraft == [k \in {} |-> 0]

\* the cap of +-15 % left out
WeightFactor_Uncapped(w) ==
    LET ref == 2500
    IN 1000 + RoundHalfEven(150 * (ref - w), ref)

\* the +-15 % factor of the hover weight effect, in thousandths
WeightFactor(w) ==
    LET ref == 2500
        delta150 == RoundHalfEven(150 * (ref - w), ref)
    IN 1000 + Max(-150, Min(150, delta150))

_apply_weight_effect_on_hover(track, craft) ==
    IF DOMAIN craft = {} THEN track
    ELSE LET w == IF "weight" \in DOMAIN craft THEN craft.weight ELSE 0
         IN IF w <= 0 THEN track
            ELSE [b \in Blades |->
                     IF b = "YEL" THEN 0
                     ELSE RoundHalfEven(track[b] * WeightFactor(w), 1000)]

\* the trim tabs act in every regime alike
RawTrack_TrimEverywhere(regime, adj, noise) ==
    [b \in Blades |->
        BASE_TRACK[regime][b]
            + (PITCHLINK_MM_PER_TURN * adj.pitch_flats[b] * TrackPerMm)
                  \div (4 * FLATS_PER_TURN)
            + (TRIMTAB_MMTRACK_PER_MM * adj.trim_mm[b] * TrackPerMm) \div 2
            + noise[b]]

\* lines 120-135: baseline + pitch link + trim tab + noise, per blade
RawTrack(regime, adj, noise) ==
    [b \in Blades |->
        LET pitch_effect ==
                (PITCHLINK_MM_PER_TURN * adj.pitch_flats[b] * TrackPerMm)
                    \div (4 * FLATS_PER_TURN)
            full == (TRIMTAB_MMTRACK_PER_MM * adj.trim_mm[b] * TrackPerMm) \div 2
            trim_effect ==
                IF regime = "HORIZ" THEN full
                ELSE IF regime = "HOVER" THEN full \div 4
                ELSE 0
        IN BASE_TRACK[regime][b] + pitch_effect + trim_effect + noise[b]]

\* the normalisation left out
NormalizeTrack_Skipped(track) == track

\* lines 137-141: track is shown relative to YEL
NormalizeTrack(track) ==
    LET yel0 == track["YEL"]
    IN [b \in Blades |-> IF b = "YEL" THEN 0 ELSE track[b] - yel0]

\* the weight vectors added instead of subtracted
RECURSIVE AddWeights_SameSign(_, _, _, _)
AddWeights_SameSign(v, k, bolt_g, i) ==
    IF i > Len(BLADES) THEN v
    ELSE LET b == BLADES[i]
             u == _vec_from_clock_deg(BLADE_CLOCK_DEG[b])
             w == <<v[1] + RoundHalfEven((k * bolt_g[b]) * u[1], TrigScale),
                    v[2] + RoundHalfEven((k * bolt_g[b]) * u[2], TrigScale)>>
         IN AddWeights_SameSign(w, k, bolt_g, i + 1)

\* lines 149-156: baseline vector, minus the bolt weights, plus noise
RECURSIVE AddWeights(_, _, _, _)
AddWeights(v, k, bolt_g, i) ==
    IF i > Len(BLADES) THEN v
    ELSE LET b == BLADES[i]
             u == _vec_from_clock_deg(BLADE_CLOCK_DEG[b])
             w == <<v[1] + RoundHalfEven((-k * bolt_g[b]) * u[1], TrigScale),
                    v[2] + RoundHalfEven((-k * bolt_g[b]) * u[2], TrigScale)>>
         IN AddWeights(w, k, bolt_g, i + 1)

BalanceVector(regime, adj, noise) ==
    LET base_amp == BASE_BAL[regime][1]
        base_phase == BASE_BAL[regime][2]
        u == _vec_from_clock_deg(base_phase)
        v0 == <<RoundHalfEven(u[1] * base_amp, TrigScale),
                RoundHalfEven(u[2] * base_amp, TrigScale)>>
        k == IPS_PER_GRAM[regime]
        v1 == AddWeights(v0, k, adj.bolt_g, 1)
    IN <<v1[1] + noise[1], v1[2] + noise[2]>>

\* the phase computed whatever the amplitude: atan2(0, 0) is 0, the clock
\* angle of it 90
PolarReading_NoGuard(v) ==
    BalanceReading(Isqrt(v[1] * v[1] + v[2] * v[2]), _clock_deg_from_vec(v),
                   BO105_DISPLAY_RPM)

\* lines 158-159; amp > 1e-6 IPS is amp > 0.01 amplitude units
PolarReading(v) ==
    LET n2 == v[1] * v[1] + v[2] * v[2]
        amp == Isqrt(n2)
        phase == IF n2 > 0 THEN _clock_deg_from_vec(v) ELSE 0
    IN BalanceReading(amp, phase, BO105_DISPLAY_RPM)

\* a baseline per run: the track of run n is the baseline divided by n
simulate_measurement_PerRun(run, regime, adjs, craft, noise) ==
    LET adj == adjs[regime]
        track0 == NormalizeTrack(RawTrack(regime, adj, noise.track))
    IN Measurement(regime, PolarReading(BalanceVector(regime, adj, noise.bal)),
                   [b \in Blades |-> track0[b] \div run])

\* noise: [track |-> blade -> draw, bal |-> <<draw, draw>>], the random.gauss draws
simulate_measurement(run, regime, adjs, craft, noise) ==
    LET adj == adjs[regime]
        track0 == NormalizeTrack(RawTrack(regime, adj, noise.track))
        track == IF regime = "HOVER"
                 THEN _apply_weight_effect_on_hover(track0, craft)
                 ELSE track0
    IN Measurement(regime, PolarReading(BalanceVector(regime, adj, noise.bal)), track)

---------------------------------------------------------------------------
(* vxp/solver.py: the limit evaluator *)

\* None, for a status; an absent measurement is the empty sequence and a
\* present one the sequence of it (Optional[Measurement])
None == "None"
Get(m, key) == IF key \in DOMAIN m THEN <<m[key]>> ELSE <<>>

track_limit(regime) == IF regime = "GROUND" THEN Mm(15) ELSE Mm(5)

balance_limit(regime) == IF regime = "GROUND" THEN 2000 ELSE 500

acceptance_track_limit(regime) == track_limit(regime)

\* any regime that is not HOVER or HORIZ gets the GROUND band
procedural_track_limit_GroundDefault(regime) ==
    IF regime = "HOVER" THEN Mm(10)
    ELSE IF regime = "HORIZ" THEN Mm(20)
    ELSE Mm(30)

procedural_track_limit(regime) ==
    IF regime = "GROUND" THEN Mm(30)
    ELSE IF regime = "HOVER" THEN Mm(10)
    ELSE Mm(20)

acceptance_balance_limit(regime) == balance_limit(regime)

procedural_balance_limit(regime) == IF regime = "GROUND" THEN 4000 ELSE 1500

RECURSIVE MaxOver(_, _, _)
MaxOver(f, i, best) ==
    IF i > Len(BLADES) THEN best ELSE MaxOver(f, i + 1, Max(best, f[BLADES[i]]))

RECURSIVE MinOver(_, _, _)
MinOver(f, i, best) ==
    IF i > Len(BLADES) THEN best ELSE MinOver(f, i + 1, Min(best, f[BLADES[i]]))

track_spread(m) ==
    MaxOver(m.track_mm, 2, m.track_mm[BLADES[1]])
        - MinOver(m.track_mm, 2, m.track_mm[BLADES[1]])

\* both metrics must exceed a limit, instead of either
regime_status_Both(regime, mo) ==
    IF mo = <<>> THEN None
    ELSE LET m == mo[1]
         IN IF regime \notin Regimes THEN "DONE"
            ELSE LET ts == track_spread(m)
                     amp == m.balance.amp_ips
                 IN IF ts > procedural_track_limit(regime)
                       /\ amp > procedural_balance_limit(regime) THEN "STOP"
                    ELSE IF ts > acceptance_track_limit(regime)
                            /\ amp > acceptance_balance_limit(regime) THEN "WARN"
                    ELSE "OK"

\* no check of the regime: an unsupported one is classified like HORIZ
regime_status_AnyRegime(regime, mo) ==
    IF mo = <<>> THEN None
    ELSE LET m == mo[1]
             ts == track_spread(m)
             amp == m.balance.amp_ips
         IN IF ts > procedural_track_limit(regime)
               \/ amp > procedural_balance_limit(regime) THEN "STOP"
            ELSE IF ts > acceptance_track_limit(regime)
                    \/ amp > acceptance_balance_limit(regime) THEN "WARN"
            ELSE "OK"

\* the two labels exchanged: "WARN" above the procedural limits
regime_status_Swapped(regime, mo) ==
    IF mo = <<>> THEN None
    ELSE LET m == mo[1]
         IN IF regime \notin Regimes THEN "DONE"
            ELSE LET ts == track_spread(m)
                     amp == m.balance.amp_ips
                 IN IF ts > procedural_track_limit(regime)
                       \/ amp > procedural_balance_limit(regime) THEN "WARN"
                    ELSE IF ts > acceptance_track_limit(regime)
                            \/ amp > acceptance_balance_limit(regime) THEN "STOP"
                    ELSE "OK"

\* mo: the optional measurement
regime_status(regime, mo) ==
    IF mo = <<>> THEN None
    ELSE LET m == mo[1]
         IN IF ~(Blades \subseteq DOMAIN m.track_mm) THEN "DONE"
            ELSE IF regime \notin Regimes THEN "DONE"
            ELSE LET ts == track_spread(m)
                     amp == m.balance.amp_ips
                 IN IF ts > procedural_track_limit(regime)
                       \/ amp > procedural_balance_limit(regime) THEN "STOP"
                    ELSE IF ts > acceptance_track_limit(regime)
                            \/ amp > acceptance_balance_limit(regime) THEN "WARN"
                    ELSE "OK"

RECURSIVE AllOkFrom(_, _)
AllOkFrom(meas_by_regime, i) ==
    IF i > Len(REGIMES) THEN TRUE
    ELSE LET r == REGIMES[i]
         IN IF r \notin DOMAIN meas_by_regime THEN FALSE
            ELSE IF track_spread(meas_by_regime[r]) > track_limit(r) THEN FALSE
            ELSE IF meas_by_regime[r].balance.amp_ips > balance_limit(r) THEN FALSE
            ELSE AllOkFrom(meas_by_regime, i + 1)

\* a missing regime is skipped instead of failing the check
all_ok_SkipMissing(meas_by_regime) ==
    \A r \in Regimes \cap DOMAIN meas_by_regime :
        /\ track_spread(meas_by_regime[r]) <= track_limit(r)
        /\ meas_by_regime[r].balance.amp_ips <= balance_limit(r)

\* the procedural limits taken for the acceptance limits
all_ok_ProceduralLimits(meas_by_regime) ==
    \A r \in Regimes :
        /\ r \in DOMAIN meas_by_regime
        /\ track_spread(meas_by_regime[r]) <= procedural_track_limit(r)
        /\ meas_by_regime[r].balance.amp_ips <= procedural_balance_limit(r)

all_ok(meas_by_regime) == AllOkFrom(meas_by_regime, 1)

---------------------------------------------------------------------------
(* vxp/solver.py: the correction solver *)

\* the reference blade left out of the result
ZeroCorrection_NoYel == [b \in Blades \ {"YEL"} |-> 0]

\* {b: 0.0 for b in BLADES}
ZeroCorrection == [b \in Blades |-> 0]

\* round(x * 4.0) / 4.0 for x = n / d, d > 0, in quarters
_round_quarter(n, d) == RoundHalfEven(4 * n, d)

\* the tracks are summed, not averaged
suggest_pitchlink_Sum(m) ==
    LET used == {r \in {"GROUND", "HOVER"} : r \in DOMAIN m}
        sum(b) == (IF "GROUND" \in used THEN m["GROUND"].track_mm[b] ELSE 0)
                  + (IF "HOVER" \in used THEN m["HOVER"].track_mm[b] ELSE 0)
    IN IF used = {} THEN ZeroCorrection
       ELSE [b \in Blades |->
                _round_quarter(-sum(b), PITCHLINK_MM_PER_TURN * TrackPerMm)]

\* every regime measured is averaged, HORIZ too
suggest_pitchlink_AllRegimes(m) ==
    LET used == {r \in Regimes : r \in DOMAIN m}
        sum(b) == (IF "GROUND" \in used THEN m["GROUND"].track_mm[b] ELSE 0)
                  + (IF "HOVER" \in used THEN m["HOVER"].track_mm[b] ELSE 0)
                  + (IF "HORIZ" \in used THEN m["HORIZ"].track_mm[b] ELSE 0)
    IN IF used = {} THEN ZeroCorrection
       ELSE [b \in Blades |->
                _round_quarter(-sum(b),
                               Cardinality(used) * PITCHLINK_MM_PER_TURN * TrackPerMm)]

\* quarter turns per blade
suggest_pitchlink(m) ==
    LET used == {r \in {"GROUND", "HOVER"} : r \in DOMAIN m}
        sum(b) == (IF "GROUND" \in used THEN m["GROUND"].track_mm[b] ELSE 0)
                  + (IF "HOVER" \in used THEN m["HOVER"].track_mm[b] ELSE 0)
    IN IF used = {} THEN ZeroCorrection
       ELSE [b \in Blades |->
                _round_quarter(-sum(b),
                               Cardinality(used) * PITCHLINK_MM_PER_TURN * TrackPerMm)]

\* the clamp left out
suggest_trimtabs_Unclamped(m) ==
    IF "HORIZ" \notin DOMAIN m THEN ZeroCorrection
    ELSE [b \in Blades |->
             _round_quarter(-m["HORIZ"].track_mm[b], TRIMTAB_MMTRACK_PER_MM * TrackPerMm)]

\* quarter millimetres per blade, clamped to +-5 mm
suggest_trimtabs(m) ==
    IF "HORIZ" \notin DOMAIN m THEN ZeroCorrection
    ELSE [b \in Blades |->
             LET dev == m["HORIZ"].track_mm[b]
             IN Max(-20, Min(20, _round_quarter(-dev, TRIMTAB_MMTRACK_PER_MM * TrackPerMm)))]

_dot(a, b) == a[1] * b[1] + a[2] * b[2]

\* GROUND preferred to HOVER
_pick_balance_regime_GroundFirst(m) ==
    IF "GROUND" \in DOMAIN m THEN "GROUND"
    ELSE IF "HOVER" \in DOMAIN m THEN "HOVER"
    ELSE IF "HORIZ" \in DOMAIN m THEN "HORIZ"
    ELSE None

_pick_balance_regime(m) ==
    IF "HOVER" \in DOMAIN m THEN "HOVER"
    ELSE IF "GROUND" \in DOMAIN m THEN "GROUND"
    ELSE IF "HORIZ" \in DOMAIN m THEN "HORIZ"
    ELSE None

\* the quadrants taken one blade late
QuadrantAxes_Late(phase) ==
    IF 0 <= phase /\ phase < Deg(90) THEN <<"RED", "BLU">>
    ELSE IF Deg(90) <= phase /\ phase < Deg(180) THEN <<"BLU", "GRN">>
    ELSE IF Deg(180) <= phase /\ phase < Deg(270) THEN <<"GRN", "YEL">>
    ELSE <<"YEL", "RED">>

\* lines 231-238: the two blade axes of the quadrant of the phase
QuadrantAxes(phase) ==
    IF 0 <= phase /\ phase < Deg(90) THEN <<"YEL", "RED">>
    ELSE IF Deg(90) <= phase /\ phase < Deg(180) THEN <<"RED", "BLU">>
    ELSE IF Deg(180) <= phase /\ phase < Deg(270) THEN <<"BLU", "GRN">>
    ELSE <<"GRN", "YEL">>

\* the threshold misread as 0.60 IPS
OneWeightOnly_Late(amp) == amp > 6000

\* line 249: the amplitude above which only one weight is changed
OneWeightOnly(amp) == amp > 5000

\* rounded to the gram instead of to 10 g
round10_ToGram(x) == RoundHalfEven(x, 1000)

\* lines 255-256, for x in milligrams: the grams, to the nearest 10 g
round10(x) == RoundHalfEven(x, 10000) * 10

\* a weight below 10 g raised to 10 g instead of dropped
PracticalGrams_AtLeastTen(g) == Min(600, Max(10, round10(g)))

\* lines 259-263
PracticalGrams(g) ==
    LET g10 == round10(g)
        g0 == IF g10 < 10 THEN 0 ELSE g10
    IN Min(600, g0)

\* lines 266-272: keep the two largest entries (the sort is stable, in the
\* order of BLADES)
KeepTwo(out) ==
    LET nonzero == {i \in 1..Len(BLADES) : out[BLADES[i]] > 0}
        before(i) == {j \in nonzero :
                         \/ out[BLADES[j]] > out[BLADES[i]]
                         \/ out[BLADES[j]] = out[BLADES[i]] /\ j < i}
    IN IF Cardinality(nonzero) > 2
       THEN [b \in Blades |->
                LET i == CHOOSE j \in 1..Len(BLADES) : BLADES[j] = b
                IN IF i \in nonzero /\ Cardinality(before(i)) < 2 THEN out[b] ELSE 0]
       ELSE out

\* grams per blade
suggest_weight(ms) ==
    IF DOMAIN ms = {} THEN ZeroCorrection
    ELSE IF _pick_balance_regime(ms) = None THEN ZeroCorrection
    ELSE LET regime == _pick_balance_regime(ms)
             m == ms[regime]
             amp == m.balance.amp_ips
             phase == PyMod360(m.balance.phase_deg)
             k == IPS_PER_GRAM[regime]
             v == _vec_from_clock_deg(phase)
             \* milligrams
             gvec == <<RoundHalfEven(v[1] * amp, k), RoundHalfEven(v[2] * amp, k)>>
             axes == QuadrantAxes(phase)
             comp(b) == Max(0, _dot(gvec, _vec_from_clock_deg(BLADE_CLOCK_DEG[b]))
                                   \div TrigScale)
             \* max(comps, key=...) returns the first of equal components
             keep == IF comp(axes[1]) >= comp(axes[2]) THEN axes[1] ELSE axes[2]
             kept == IF OneWeightOnly(amp) THEN {keep} ELSE {axes[1], axes[2]}
             out == [b \in Blades |-> IF b \in kept THEN PracticalGrams(comp(b)) ELSE 0]
         IN IF k <= 0 THEN ZeroCorrection ELSE KeepTwo(out)

---------------------------------------------------------------------------
(* The caller of the core: what it holds and what it last called *)

NoMeas == [k \in {} |-> 0]

\* init_state (ui.py): the session before any click
SessionInit ==
    /\ vxp_screen = "home"
    /\ vxp_run = 1
    /\ vxp_runs = [r \in {1} |-> NoMeas]
    /\ vxp_completed_by_run = [r \in {1} |-> {}]
    /\ vxp_view_run = 1
    /\ vxp_pending_regime = "None"
    /\ vxp_acq_done = FALSE

Call(fn, regime, key, run) == [fn |-> fn, regime |-> regime, key |-> key, run |-> run]

Fields == {"pitch_flats", "trim_mm", "bolt_g"}

\* how many settings differ from default_adjustments()
EditCount(adjs) ==
    Cardinality({e \in Regimes \X Fields \X Blades : adjs[e[1]][e[2]][e[3]] # 0})

MaxEdits == 1

\* one flat of pitch link; one millimetre of tab; a bolt weight that turns
\* the hover baseline over
SettingValues(f) ==
    CASE f = "pitch_flats" -> {4}
      [] f = "trim_mm" -> {2}
      [] f = "bolt_g" -> {500}

AircraftInputs ==
    {NoAircraft, [type |-> "BO105"], [weight |-> 0], [weight |-> 9000]}

\* random.gauss(0.0, 0.35) per blade: no noise, or one blade off by one sigma
TrackNoiseDraws ==
    {[b \in Blades |-> 0]}
    \cup {[b \in Blades |-> IF b = c THEN 84 ELSE 0] : c \in {"YEL", "RED"}}
    \cup {[b \in Blades |-> IF b = "BLU" THEN -84 ELSE 0]}

\* random.gauss(0.0, 0.004) per component
BalNoiseDraws == {<<0, 0>>, <<-11, 0>>, <<40, -40>>}

NoNoise == [track |-> [b \in Blades |-> 0], bal |-> <<0, 0>>]

\* one draw of all six: noise on the track, or noise on the balance
NoiseDraws ==
    {[track |-> t, bal |-> <<0, 0>>] : t \in TrackNoiseDraws}
    \cup {[track |-> [b \in Blades |-> 0], bal |-> n] : n \in BalNoiseDraws}

\* a call of simulate_measurement, with what random.gauss drew during it
SimCall(regime, run, noise) ==
    [fn |-> "simulate_measurement", regime |-> regime, key |-> "-", run |-> run,
     noise |-> noise]

Idle == Call("-", "-", "-", 0)

SetAdjustment(r, f, b, x) ==
    /\ call = Idle
    /\ EditCount([adjustments EXCEPT ![r][f][b] = x]) <= MaxEdits
    /\ adjustments' = [adjustments EXCEPT ![r][f][b] = x]
    /\ UNCHANGED <<aircraft, meas, call, ret, session>>

SetAircraft(a) ==
    /\ call = Idle
    /\ aircraft' = a
    /\ UNCHANGED <<adjustments, meas, call, ret, session>>

\* the slot measured is put back to its default after the measurement
Simulate_ResetsSlot(run, regime, noise) ==
    /\ call = Idle
    /\ ret' = simulate_measurement(run, regime, adjustments, aircraft, noise)
    /\ call' = SimCall(regime, run, noise)
    /\ adjustments' = [adjustments EXCEPT ![regime] = default_adjustments[regime]]
    /\ UNCHANGED <<aircraft, meas, session>>

Simulate(run, regime, noise) ==
    /\ call = Idle
    /\ ret' = simulate_measurement(run, regime, adjustments, aircraft, noise)
    /\ call' = SimCall(regime, run, noise)
    /\ UNCHANGED <<adjustments, aircraft, meas, session>>

\* the caller is done with the value returned
Return ==
    /\ call # Idle
    /\ call' = Idle
    /\ ret' = "None"
    /\ UNCHANGED <<adjustments, aircraft, meas, session>>

InitSim ==
    /\ adjustments = default_adjustments
    /\ aircraft = NoAircraft
    /\ meas = NoMeas
    /\ call = Idle
    /\ ret = "None"
    /\ SessionInit

NextSim ==
    \/ \E r \in Regimes, f \in Fields, b \in Blades :
           \E x \in SettingValues(f) \cup {0} : SetAdjustment(r, f, b, x)
    \/ \E a \in AircraftInputs : SetAircraft(a)
    \/ \E run \in 1..3, regime \in Regimes, noise \in NoiseDraws :
           Simulate(run, regime, noise)
    \/ Return

SpecSim == InitSim /\ [][NextSim]_vars

---------------------------------------------------------------------------
(* The evaluator and the solver on measurement mappings a caller may hold *)

\* a regime key the core does not support
Unsupported == "CRUISE"
Keys == Regimes \cup {Unsupported}

Track(blu, grn, yel, red) ==
    [b \in Blades |-> CASE b = "BLU" -> blu [] b = "GRN" -> grn
                        [] b = "YEL" -> yel [] b = "RED" -> red]

Mk(regime, amp, phase, track) ==
    Measurement(regime, BalanceReading(amp, phase, BO105_DISPLAY_RPM), track)

\* every mapping of the keys ks to the measurements choice(k)
MapsOver(ks, choice(_)) ==
    {m \in [ks -> UNION {choice(k) : k \in ks}] : \A k \in ks : m[k] \in choice(k)}

\* amplitudes at and one unit above each balance limit, and 0
LimitAmps == {0, 500, 501, 1500, 1501, 2000, 2001, 4000, 4001}

\* spreads at and one unit above each track limit, and 0
LimitSpreads ==
    {0} \cup {Mm(x) + e : x \in {5, 10, 15, 20, 30}, e \in {0, 1}}

\* one regime measured: the spread on one blade above, or on one blade below
StatusInputs ==
    {[k \in {r} |-> Mk(r, a, 0, t)] :
        r \in Regimes, a \in LimitAmps,
        t \in {Track(s, 0, 0, 0) : s \in LimitSpreads}
              \cup {Track(0, 0, 0, -s) : s \in LimitSpreads}}

\* per regime: at both acceptance limits, or one unit above one of them
AtLimits(r) ==
    {Mk(r, balance_limit(r), 0, Track(track_limit(r), 0, 0, 0)),
     Mk(r, balance_limit(r), 0, Track(0, 0, 0, -track_limit(r) - 1)),
     Mk(r, balance_limit(r) + 1, 0, Track(0, track_limit(r), 0, 0))}

AllOkInputs == UNION {MapsOver(ks, AtLimits) : ks \in SUBSET Regimes}

BalanceAmps == {0, 40, 60, 2000, 5000, 5001, 9000}
BalancePhases ==
    {Deg(0), Deg(30), Deg(40), Deg(90), Deg(130), Deg(200), Deg(270), Deg(320),
     Deg(400), -1}

\* the regime of ks whose balance reading is varied: the first of HOVER,
\* GROUND, HORIZ in it
Varied(ks) ==
    CHOOSE r \in ks : \A o \in ks :
        (r = "HOVER") \/ (r = "GROUND" /\ o # "HOVER") \/ (o = "HORIZ")

\* the regimes ks measured: every balance reading on one of them, one fixed
\* reading on the others
WeightInputs ==
    UNION {MapsOver(ks, LAMBDA r :
                IF r = Varied(ks)
                THEN {Mk(r, a, p, Track(0, 0, 0, 0)) : a \in BalanceAmps, p \in BalancePhases}
                ELSE {Mk(r, 3000, Deg(200), Track(0, 0, 0, 0))})
           : ks \in (SUBSET Regimes) \ {{}}}

\* track readings: the two of the worked example, a reading whose reference
\* blade is not at 0, a far and a half-way one
TrackReadings ==
    {Track(Mm(6), Mm(-3), 0, Mm(-4)), Track(Mm(4), Mm(-2), 0, Mm(-3)),
     Track(0, 0, Mm(10), 0), Track(Mm(100), Mm(-100), 0, Mm10(-25))}

TrackInputs ==
    UNION {MapsOver(ks, LAMBDA r : {Mk(r, 0, 0, t) : t \in TrackReadings})
           : ks \in SUBSET Regimes}

UnsupportedInputs ==
    {[k \in {Unsupported} |-> Mk(Unsupported, a, Deg(45), Track(Mm(6), Mm(-3), Mm(2), 0))] :
        a \in {0, 3000}}

MeasInputs ==
    StatusInputs \cup AllOkInputs \cup WeightInputs \cup TrackInputs
        \cup UnsupportedInputs

\* the six limit lookups of solver.py, by name
LimitFns ==
    {"track_limit", "balance_limit", "acceptance_track_limit",
     "procedural_track_limit", "acceptance_balance_limit",
     "procedural_balance_limit"}

LimitValue(fn, regime) ==
    CASE fn = "track_limit" -> track_limit(regime)
      [] fn = "balance_limit" -> balance_limit(regime)
      [] fn = "acceptance_track_limit" -> acceptance_track_limit(regime)
      [] fn = "procedural_track_limit" -> procedural_track_limit(regime)
      [] fn = "acceptance_balance_limit" -> acceptance_balance_limit(regime)
      [] fn = "procedural_balance_limit" -> procedural_balance_limit(regime)

LimitLookup(fn, regime) ==
    /\ call = Idle
    /\ ret' = LimitValue(fn, regime)
    /\ call' = Call(fn, regime, "-", 0)
    /\ UNCHANGED <<adjustments, aircraft, meas, session>>

RegimeStatus(regime, key) ==
    /\ call = Idle
    /\ ret' = regime_status(regime, Get(meas, key))
    /\ call' = Call("regime_status", regime, key, 0)
    /\ UNCHANGED <<adjustments, aircraft, meas, session>>

AllOk ==
    /\ call = Idle
    /\ ret' = all_ok(meas)
    /\ call' = Call("all_ok", "-", "-", 0)
    /\ UNCHANGED <<adjustments, aircraft, meas, session>>

SuggestPitchlink ==
    /\ call = Idle
    /\ ret' = suggest_pitchlink(meas)
    /\ call' = Call("suggest_pitchlink", "-", "-", 0)
    /\ UNCHANGED <<adjustments, aircraft, meas, session>>

SuggestTrimtabs ==
    /\ call = Idle
    /\ ret' = suggest_trimtabs(meas)
    /\ call' = Call("suggest_trimtabs", "-", "-", 0)
    /\ UNCHANGED <<adjustments, aircraft, meas, session>>

SuggestWeight ==
    /\ call = Idle
    /\ ret' = suggest_weight(meas)
    /\ call' = Call("suggest_weight", "-", "-", 0)
    /\ UNCHANGED <<adjustments, aircraft, meas, session>>

InitSolver ==
    /\ adjustments = default_adjustments
    /\ aircraft = NoAircraft
    /\ meas \in MeasInputs
    /\ call = Idle
    /\ ret = "None"
    /\ SessionInit

NextSolver ==
    \/ \E regime \in Keys, key \in Keys : RegimeStatus(regime, key)
    \/ \E fn \in LimitFns, regime \in Keys : LimitLookup(fn, regime)
    \/ AllOk
    \/ SuggestPitchlink
    \/ SuggestTrimtabs
    \/ SuggestWeight
    \/ Return

SpecSolver == InitSolver /\ [][NextSolver]_vars

---------------------------------------------------------------------------
(* Every core function, called on inputs the caller keeps *)

CoreFns ==
    LimitFns \cup {"simulate_measurement", "regime_status", "all_ok",
                   "suggest_pitchlink", "suggest_trimtabs", "suggest_weight"}

\* the default settings, and settings with a weight and a tab moved
CoreAdjustments ==
    {default_adjustments,
     [default_adjustments EXCEPT !["HOVER"].bolt_g["BLU"] = 500,
                                 !["HORIZ"].trim_mm["RED"] = 2],
     \* the same weight on the four blades; one more on RED in flight
     [default_adjustments EXCEPT !["GROUND"].bolt_g = [b \in Blades |-> 100],
                                 !["HORIZ"].bolt_g["RED"] = 40],
     \* the weight that cancels the hover baseline, 0.25 IPS at BLU
     [default_adjustments EXCEPT !["HOVER"].bolt_g["BLU"] = 250]}

\* aircraft mappings: those of AircraftInputs, and weights below, at and
\* above the reference of 2500
CoreAircraft ==
    AircraftInputs
        \cup {[weight |-> w] : w \in {-100, 1, 2000, 2500, 3000, 5000}}

CoreMeasInputs ==
    UnsupportedInputs
        \cup {m \in TrackInputs : \A k \in DOMAIN m : m[k].track_mm["BLU"] = Mm(6)}

InitCore ==
    /\ adjustments \in CoreAdjustments
    /\ aircraft \in CoreAircraft
    /\ meas \in CoreMeasInputs
    /\ call = Idle
    /\ ret = "None"
    /\ SessionInit

NextCore ==
    \/ \E run \in 1..3, regime \in Regimes, noise \in NoiseDraws :
           Simulate(run, regime, noise)
    \/ \E regime \in Keys, key \in Keys : RegimeStatus(regime, key)
    \/ \E fn \in LimitFns, regime \in Keys : LimitLookup(fn, regime)
    \/ AllOk
    \/ SuggestPitchlink
    \/ SuggestTrimtabs
    \/ SuggestWeight
    \/ Return

SpecCore == InitCore /\ [][NextCore]_vars

---------------------------------------------------------------------------
(* vxp/ui.py: the session, one action per button or render step.  The note
   codes and the fields of the AIRCRAFT INFO dialog are left out: the
   acquisition passes no aircraft to simulate_measurement. *)

setdefault(m, k, d) ==
    IF k \in DOMAIN m THEN m
    ELSE [x \in DOMAIN m \cup {k} |-> IF x = k THEN d ELSE m[x]]

\* m[k] = v of a dict
Put(m, k, v) == [x \in DOMAIN m \cup {k} |-> IF x = k THEN v ELSE m[x]]

REGIME_LABEL ==
    [r \in Regimes |-> CASE r = "GROUND" -> "100% Ground"
                          [] r = "HOVER" -> "Hover Flight"
                          [] r = "HORIZ" -> "Horizontal Flight"]

\* the screens with a run selector
RunSelectorScreens ==
    {"meas_list", "meas_graph", "settings", "solution", "solution_text"}

\* the keys of a regime's slot that screen_settings_window reads and writes
SETTINGS_KEYS == {"pitch_turns", "trim_mm", "bolt_g"}

\* the render of SETTINGS raises KeyError at its first read of a missing key
SettingsRaises == ~(SETTINGS_KEYS \subseteq DOMAIN adjustments[REGIMES[1]])

\* the navigation buttons a screen renders.  SETTINGS renders none: its
\* render reads adj["pitch_turns"], a key default_adjustments does not
\* create, before it reaches its Close button
Targets(screen) ==
    CASE screen = "home" -> {"aircraft_info", "mr_menu", "not_impl"}
      [] screen = "mr_menu" ->
             {"collect", "meas_list", "meas_graph", "settings", "solution",
              "next_run_prompt", "home"}
      [] screen = "collect" ->
             IF vxp_pending_regime = None THEN {"mr_menu"} ELSE {}
      [] screen = "solution" ->
             IF vxp_runs[vxp_view_run] = NoMeas THEN {"mr_menu"}
             ELSE {"solution_text", "mr_menu"}
      [] screen \in {"meas_list", "meas_graph", "solution_text", "next_run_prompt"} ->
             {"mr_menu"}
      [] screen = "aircraft_info" -> {"note_codes", "home"}
      [] screen = "note_codes" -> {"aircraft_info"}
      [] screen = "not_impl" -> {"home"}
      [] screen = "settings" -> IF SettingsRaises THEN {} ELSE {"mr_menu"}
      [] OTHER -> {}

go(screen) ==
    /\ screen \in Targets(vxp_screen)
    /\ vxp_screen' = screen
    /\ UNCHANGED <<adjustments, aircraft, meas, call, ret, vxp_run, vxp_runs,
                   vxp_completed_by_run, vxp_view_run, vxp_pending_regime,
                   vxp_acq_done>>

run_selector_inline(r) ==
    /\ vxp_screen \in RunSelectorScreens
    /\ r \in DOMAIN vxp_runs
    /\ vxp_view_run' = r
    /\ UNCHANGED <<adjustments, aircraft, meas, call, ret, vxp_screen, vxp_run,
                   vxp_runs, vxp_completed_by_run, vxp_pending_regime,
                   vxp_acq_done>>

\* screen_collect_window: a regime button
SelectRegime(r) ==
    /\ vxp_screen = "collect"
    /\ vxp_pending_regime = None
    /\ vxp_pending_regime' = r
    /\ vxp_acq_done' = (r \in vxp_completed_by_run[vxp_run])
    /\ UNCHANGED <<adjustments, aircraft, meas, call, ret, vxp_screen, vxp_run,
                   vxp_runs, vxp_completed_by_run, vxp_view_run>>

\* the measurement is stored, the regime is not marked completed
Acquire_NotMarked(noise) ==
    /\ vxp_screen = "collect"
    /\ vxp_pending_regime # None
    /\ vxp_pending_regime \notin vxp_completed_by_run[vxp_run]
    /\ ~vxp_acq_done
    /\ vxp_runs' =
           [vxp_runs EXCEPT ![vxp_run] =
               Put(@, vxp_pending_regime,
                   simulate_measurement(vxp_run, vxp_pending_regime, adjustments,
                                        NoAircraft, noise))]
    /\ vxp_acq_done' = TRUE
    /\ UNCHANGED <<adjustments, aircraft, meas, call, ret, vxp_screen, vxp_run,
                   vxp_completed_by_run, vxp_view_run, vxp_pending_regime>>

\* the measurement is stored under the label of the regime
Acquire_UnderLabel(noise) ==
    /\ vxp_screen = "collect"
    /\ vxp_pending_regime # None
    /\ vxp_pending_regime \notin vxp_completed_by_run[vxp_run]
    /\ ~vxp_acq_done
    /\ vxp_runs' =
           [vxp_runs EXCEPT ![vxp_run] =
               Put(@, REGIME_LABEL[vxp_pending_regime],
                   simulate_measurement(vxp_run, vxp_pending_regime, adjustments,
                                        NoAircraft, noise))]
    /\ vxp_completed_by_run' =
           [vxp_completed_by_run EXCEPT ![vxp_run] = @ \cup {vxp_pending_regime}]
    /\ vxp_acq_done' = TRUE
    /\ UNCHANGED <<adjustments, aircraft, meas, call, ret, vxp_screen, vxp_run,
                   vxp_view_run, vxp_pending_regime>>

\* _render_acquire_dialog, not yet done: measure, store, mark completed
Acquire(noise) ==
    /\ vxp_screen = "collect"
    /\ vxp_pending_regime # None
    /\ vxp_pending_regime \notin vxp_completed_by_run[vxp_run]
    /\ ~vxp_acq_done
    /\ vxp_runs' =
           [vxp_runs EXCEPT ![vxp_run] =
               Put(@, vxp_pending_regime,
                   simulate_measurement(vxp_run, vxp_pending_regime, adjustments,
                                        NoAircraft, noise))]
    /\ vxp_completed_by_run' =
           [vxp_completed_by_run EXCEPT ![vxp_run] = @ \cup {vxp_pending_regime}]
    /\ vxp_acq_done' = TRUE
    /\ UNCHANGED <<adjustments, aircraft, meas, call, ret, vxp_screen, vxp_run,
                   vxp_view_run, vxp_pending_regime>>

\* _render_acquire_dialog: the Close button of the DONE summary
CloseAcquire ==
    /\ vxp_screen = "collect"
    /\ vxp_pending_regime # None
    /\ vxp_acq_done
    /\ vxp_pending_regime' = None
    /\ vxp_acq_done' = FALSE
    /\ UNCHANGED <<adjustments, aircraft, meas, call, ret, vxp_screen, vxp_run,
                   vxp_runs, vxp_completed_by_run, vxp_view_run>>

\* UPDATE SETTINGS - START NEXT RUN
StartNextRunUpdate ==
    /\ vxp_screen = "next_run_prompt"
    /\ ~(vxp_run >= 3)
    /\ vxp_run' = vxp_run + 1
    /\ vxp_runs' = setdefault(vxp_runs, vxp_run + 1, NoMeas)
    /\ vxp_completed_by_run' = setdefault(vxp_completed_by_run, vxp_run + 1, {})
    /\ vxp_screen' = "settings"
    /\ UNCHANGED <<adjustments, aircraft, meas, call, ret, vxp_view_run,
                   vxp_pending_regime, vxp_acq_done>>

\* the button is not disabled on the last run
StartNextRunNoChange_Always ==
    /\ vxp_screen = "next_run_prompt"
    /\ vxp_run' = vxp_run + 1
    /\ vxp_runs' = setdefault(vxp_runs, vxp_run + 1, NoMeas)
    /\ vxp_completed_by_run' = setdefault(vxp_completed_by_run, vxp_run + 1, {})
    /\ vxp_screen' = "mr_menu"
    /\ UNCHANGED <<adjustments, aircraft, meas, call, ret, vxp_view_run,
                   vxp_pending_regime, vxp_acq_done>>

\* NO CHANGES MADE - START NEXT RUN
StartNextRunNoChange ==
    /\ vxp_screen = "next_run_prompt"
    /\ ~(vxp_run >= 3)
    /\ vxp_run' = vxp_run + 1
    /\ vxp_runs' = setdefault(vxp_runs, vxp_run + 1, NoMeas)
    /\ vxp_completed_by_run' = setdefault(vxp_completed_by_run, vxp_run + 1, {})
    /\ vxp_screen' = "mr_menu"
    /\ UNCHANGED <<adjustments, aircraft, meas, call, ret, vxp_view_run,
                   vxp_pending_regime, vxp_acq_done>>

\* the draws of an acquisition of the session
SessionNoise == {NoNoise, [track |-> [b \in Blades |-> 0], bal |-> <<40, -40>>]}

Screens ==
    {"home", "mr_menu", "collect", "meas_list", "meas_graph", "settings",
     "solution", "solution_text", "next_run_prompt", "aircraft_info",
     "note_codes", "not_impl"}

InitSession ==
    /\ adjustments = default_adjustments
    /\ aircraft = [weight |-> 0]
    /\ meas = NoMeas
    /\ call = Idle
    /\ ret = "None"
    /\ SessionInit

NextSession ==
    \/ \E screen \in Screens : go(screen)
    \/ \E r \in 1..3 : run_selector_inline(r)
    \/ \E r \in Regimes : SelectRegime(r)
    \/ \E noise \in SessionNoise : Acquire(noise)
    \/ CloseAcquire
    \/ StartNextRunUpdate
    \/ StartNextRunNoChange

SpecSession == InitSession /\ [][NextSession]_vars

---------------------------------------------------------------------------
(* The data flow of a run: measure, solve, enter the suggestion as settings,
   measure again.  No noise is drawn. *)

MaxRounds == 2

\* the settings a round starts from: the defaults; weights that leave the
\* hover imbalance at 0.75 IPS, at 0 and off the blade axes; a ground weight;
\* one flat of pitch link
LoopAdjustments ==
    {default_adjustments,
     [default_adjustments EXCEPT !["HOVER"].bolt_g["YEL"] = 500],
     [default_adjustments EXCEPT !["HOVER"].bolt_g["BLU"] = 250],
     [default_adjustments EXCEPT !["HOVER"].bolt_g["GRN"] = 200],
     [default_adjustments EXCEPT !["GROUND"].bolt_g["RED"] = 100,
                                 !["HORIZ"].bolt_g["YEL"] = 300],
     [default_adjustments EXCEPT !["GROUND"].pitch_flats["BLU"] = 4]}

\* a regime measured with the settings as they are
Measure(regime) ==
    /\ regime \notin DOMAIN meas
    /\ meas' = Put(meas, regime,
                   simulate_measurement(1, regime, adjustments, aircraft, NoNoise))
    /\ UNCHANGED <<adjustments, aircraft, call, ret, session>>

\* the pitch-link suggestion of the GROUND and HOVER measurements added to
\* the pitch-link settings of GROUND and HOVER, value for value
FeedPitchlink ==
    /\ call.run < MaxRounds
    /\ {"GROUND", "HOVER"} \subseteq DOMAIN meas
    /\ LET s == suggest_pitchlink(meas)
       IN /\ ret' = [suggested |-> s, from |-> meas]
          /\ adjustments' =
                 [r \in Regimes |->
                     IF r \in {"GROUND", "HOVER"}
                     THEN [adjustments[r] EXCEPT
                               !.pitch_flats = [b \in Blades |-> @[b] + s[b]]]
                     ELSE adjustments[r]]
    /\ call' = Call("feed_pitchlink", "-", "-", call.run + 1)
    /\ meas' = NoMeas
    /\ UNCHANGED <<aircraft, session>>

\* the weight suggestion added to the bolt weights of the governing regime
FeedWeight ==
    /\ call.run < MaxRounds
    /\ _pick_balance_regime(meas) # None
    /\ LET s == suggest_weight(meas)
           g == _pick_balance_regime(meas)
       IN /\ ret' = [suggested |-> s, from |-> meas]
          /\ adjustments' =
                 [adjustments EXCEPT ![g].bolt_g = [b \in Blades |-> @[b] + s[b]]]
          /\ call' = Call("feed_weight", g, "-", call.run + 1)
    /\ meas' = NoMeas
    /\ UNCHANGED <<aircraft, session>>

InitLoop ==
    /\ adjustments \in LoopAdjustments
    /\ aircraft \in {NoAircraft, [weight |-> 3000]}
    /\ meas = NoMeas
    /\ call = Idle
    /\ ret = "None"
    /\ SessionInit

NextLoop ==
    \/ \E regime \in Regimes : Measure(regime)
    \/ FeedPitchlink
    \/ FeedWeight

SpecLoop == InitLoop /\ [][NextLoop]_vars

---------------------------------------------------------------------------
(* Properties *)

Called(fn) == call.fn = fn

NonZero(out) == {b \in DOMAIN out : out[b] # 0}

\* max - min of the four blades, stated without the evaluator
Spread(m) ==
    CHOOSE d \in {m.track_mm[a] - m.track_mm[b] : a \in Blades, b \in Blades} :
        \A a \in Blades, b \in Blades : m.track_mm[a] - m.track_mm[b] <= d

\* the measurement suggest_weight reads: HOVER, else GROUND, else HORIZ
HasGoverning == DOMAIN meas \cap Regimes # {}
Governing ==
    IF "HOVER" \in DOMAIN meas THEN meas["HOVER"]
    ELSE IF "GROUND" \in DOMAIN meas THEN meas["GROUND"]
    ELSE meas["HORIZ"]

\* C1: the Measurement returned by simulate_measurement has track_mm["YEL"]
\* equal to exactly 0, for every regime, adjustments, noise draw and aircraft.
C1_YelTrackIsZero ==
    Called("simulate_measurement") => ret.track_mm["YEL"] = 0

\* a hover measurement with a pitch-link setting on YEL itself and a weight > 0
C1_Witness ==
    /\ Called("simulate_measurement")
    /\ call.regime = "HOVER"
    /\ "weight" \in DOMAIN aircraft
    /\ aircraft.weight > 0
    /\ adjustments["HOVER"].pitch_flats["YEL"] # 0
    /\ ret.track_mm["BLU"] # BASE_TRACK["HOVER"]["BLU"]

\* C2: the balance reading returned by simulate_measurement has amp_ips >= 0
\* and 0 <= phase_deg < 360: phase 360 itself is never returned.
C2_PhaseBelow360 ==
    Called("simulate_measurement") =>
        /\ ret.balance.amp_ips >= 0
        /\ 0 <= ret.balance.phase_deg
        /\ ret.balance.phase_deg < Deg(360)

\* C3: suggest_weight returns at most 2 nonzero entries, every entry a
\* nonnegative multiple of 10 g that is <= 600 g, and nothing at all when the
\* imbalance is below 5 g, so that every component rounds to less than 10 g.
C3_WeightSteps ==
    Called("suggest_weight") =>
        /\ Cardinality(NonZero(ret)) <= 2
        /\ \A b \in Blades : ret[b] \in {10 * i : i \in 0..60}
        /\ (HasGoverning
              /\ Governing.balance.amp_ips < 5 * IPS_PER_GRAM[Governing.regime])
               => NonZero(ret) = {}

\* two blades receive a weight
C3_Witness ==
    /\ Called("suggest_weight")
    /\ Cardinality(NonZero(ret)) = 2

\* C4 as stated: with the governing amplitude >= 0.50 IPS (0.50 included),
\* suggest_weight returns at most 1 nonzero blade.
C4_OneBladeFromHalfIps ==
    (Called("suggest_weight") /\ HasGoverning /\ Governing.balance.amp_ips >= 5000)
        => Cardinality(NonZero(ret)) <= 1

\* C4 amended: with the governing amplitude strictly above 0.50 IPS,
\* suggest_weight returns at most 1 nonzero blade, and that blade is the one
\* with the largest projection of the phase direction.
C4_OneBladeAboveHalfIps ==
    (Called("suggest_weight") /\ HasGoverning /\ Governing.balance.amp_ips > 5000)
        => /\ Cardinality(NonZero(ret)) <= 1
           /\ \A b \in NonZero(ret) : \A c \in Blades :
                  LET phase == PyMod360(Governing.balance.phase_deg)
                  IN Cos(phase - BLADE_CLOCK_DEG[b]) >= Cos(phase - BLADE_CLOCK_DEG[c])

\* 0.5001 IPS at 30 degrees: YEL is kept, RED is zeroed
C4_Witness ==
    /\ Called("suggest_weight")
    /\ HasGoverning
    /\ Governing.balance.amp_ips = 5001
    /\ Governing.balance.phase_deg = Deg(30)
    /\ NonZero(ret) = {"YEL"}

\* C5: for a supported regime and a present measurement, regime_status is
\* "STOP" if the track spread or the amplitude exceeds the regime's procedural
\* limit, otherwise "WARN" if either exceeds its acceptance limit, otherwise
\* "OK".
C5_StatusBands ==
    (Called("regime_status") /\ call.regime \in Regimes /\ call.key \in DOMAIN meas)
        => LET m == meas[call.key]
               r == call.regime
               ts == Spread(m)
               amp == m.balance.amp_ips
           IN ret = IF ts > procedural_track_limit(r) \/ amp > procedural_balance_limit(r)
                    THEN "STOP"
                    ELSE IF ts > acceptance_track_limit(r)
                            \/ amp > acceptance_balance_limit(r)
                    THEN "WARN"
                    ELSE "OK"

\* the spread alone, one unit above the procedural limit, with the amplitude at 0
C5_Witness ==
    /\ Called("regime_status")
    /\ call.regime = "HORIZ"
    /\ call.key \in DOMAIN meas
    /\ meas[call.key].balance.amp_ips = 0
    /\ Spread(meas[call.key]) = procedural_track_limit("HORIZ") + 1
    /\ ret = "STOP"

\* C6 as stated: regime_status returns null exactly when the measurement is
\* null, and "OK", "WARN" or "STOP" for every present measurement and every
\* regime argument, supported or not.
C6_ThreeStatuses ==
    Called("regime_status") =>
        /\ ret = None <=> call.key \notin DOMAIN meas
        /\ call.key \in DOMAIN meas => ret \in {"OK", "WARN", "STOP"}

\* C6 amended: regime_status returns null exactly when the measurement is
\* null; for a present measurement it returns "OK", "WARN" or "STOP" when the
\* regime is supported and "DONE" when it is not.
C6_StatusOrDone ==
    Called("regime_status") =>
        /\ ret = None <=> call.key \notin DOMAIN meas
        /\ call.key \in DOMAIN meas =>
               IF call.regime \in Regimes
               THEN ret \in {"OK", "WARN", "STOP"}
               ELSE ret = "DONE"

\* a present measurement, asked about under an unsupported regime
C6_Witness ==
    /\ Called("regime_status")
    /\ call.regime = Unsupported
    /\ call.key \in DOMAIN meas
    /\ ret = "DONE"

\* C7: all_ok is true if and only if GROUND, HOVER and HORIZ are all present
\* and each has track spread <= track_limit and amp_ips <= balance_limit (a
\* value equal to a limit passes); it is false when a regime is missing.
C7_AllOkIff ==
    Called("all_ok") =>
        (ret <=> /\ Regimes \subseteq DOMAIN meas
                 /\ \A r \in Regimes :
                        /\ Spread(meas[r]) <= track_limit(r)
                        /\ meas[r].balance.amp_ips <= balance_limit(r))

\* true with a regime exactly at both of its limits
C7_Witness ==
    /\ Called("all_ok")
    /\ ret
    /\ \E r \in Regimes :
           /\ Spread(meas[r]) = track_limit(r)
           /\ meas[r].balance.amp_ips = balance_limit(r)

\* C8: each suggestion is all zeros when the mapping holds none of the
\* regimes the function uses: no GROUND or HOVER for the pitch links, no HORIZ
\* for the trim tabs, no supported regime for the weights (so also for {} and
\* for unsupported keys only).
C8_NothingToUse ==
    /\ (Called("suggest_pitchlink") /\ DOMAIN meas \cap {"GROUND", "HOVER"} = {})
           => ret = [b \in Blades |-> 0]
    /\ (Called("suggest_trimtabs") /\ "HORIZ" \notin DOMAIN meas)
           => ret = [b \in Blades |-> 0]
    /\ (Called("suggest_weight") /\ DOMAIN meas \cap Regimes = {})
           => ret = [b \in Blades |-> 0]

\* pitch links asked with only a HORIZ measurement, whose track is not flat
C8_Witness ==
    /\ Called("suggest_pitchlink")
    /\ DOMAIN meas = {"HORIZ"}
    /\ meas["HORIZ"].track_mm["BLU"] # 0

C10_FourBladeKeys ==
    (Called("suggest_pitchlink") \/ Called("suggest_trimtabs") \/ Called("suggest_weight"))
        => /\ DOMAIN ret = Blades
           /\ Called("suggest_pitchlink") =>
                  \A b \in Blades :
                      (\A r \in DOMAIN meas \cap {"GROUND", "HOVER"} :
                           meas[r].track_mm[b] = 0) => ret[b] = 0
           /\ Called("suggest_trimtabs") =>
                  \A b \in Blades :
                      (\A r \in DOMAIN meas \cap {"HORIZ"} :
                           meas[r].track_mm[b] = 0) => ret[b] = 0
           /\ Called("suggest_weight") => Cardinality(Blades \ NonZero(ret)) >= 2

\* one blade corrected, the three others returned as 0
C10_Witness ==
    /\ Called("suggest_trimtabs")
    /\ DOMAIN ret = Blades
    /\ Cardinality(NonZero(ret)) = 1

\* the status the limits of regime r give to the measurement m
Classified(r, m) ==
    IF Spread(m) > procedural_track_limit(r)
       \/ m.balance.amp_ips > procedural_balance_limit(r) THEN "STOP"
    ELSE IF Spread(m) > acceptance_track_limit(r)
            \/ m.balance.amp_ips > acceptance_balance_limit(r) THEN "WARN"
    ELSE "OK"

\* C11 as stated: for a regime string outside GROUND, HOVER, HORIZ every
\* limit lookup returns the GROUND entry, and regime_status classifies a
\* present measurement against the GROUND limits.
C11_GroundFallback ==
    /\ (call.fn \in LimitFns /\ call.regime \notin Regimes)
           => ret = LimitValue(call.fn, "GROUND")
    /\ (Called("regime_status") /\ call.regime \notin Regimes
            /\ call.key \in DOMAIN meas)
           => ret = Classified("GROUND", meas[call.key])

\* C11 amended: for a regime string outside GROUND, HOVER, HORIZ no lookup
\* fails; the acceptance lookups return the HOVER / HORIZ entries (5 mm,
\* 0.05 IPS), the procedural lookups return the HORIZ entries (20 mm,
\* 0.15 IPS), and regime_status returns "DONE" for a present measurement.
C11_OtherFallback ==
    /\ (call.fn \in LimitFns /\ call.regime \notin Regimes)
           => ret = CASE call.fn \in {"track_limit", "acceptance_track_limit"} -> 5 * TrackPerMm
                      [] call.fn \in {"balance_limit", "acceptance_balance_limit"} -> 500
                      [] call.fn = "procedural_track_limit" -> 20 * TrackPerMm
                      [] call.fn = "procedural_balance_limit" -> 1500
    /\ (Called("regime_status") /\ call.regime \notin Regimes
            /\ call.key \in DOMAIN meas)
           => ret = "DONE"

\* the procedural track limit asked for an unsupported regime
C11_Witness ==
    /\ Called("procedural_track_limit")
    /\ call.regime = Unsupported
    /\ ret = 20 * TrackPerMm

\* track units of one quarter flat of pitch link and one half mm of trim tab
PitchShift(q) == (10 * TrackPerMm * q) \div 24
TrimShift(h) == (15 * TrackPerMm * h) \div 2

\* the adjustments with every slot but that of regime r back at its default
OnlySlot(r) == [default_adjustments EXCEPT ![r] = adjustments[r]]

\* C13: noise aside, the GROUND track does not depend on any trim_mm value;
\* the HORIZ track of blade b is shifted relative to YEL by 15 mm per mm of
\* trim_mm[b] - trim_mm[YEL]; and simulate_measurement for a regime reads only
\* that regime's slot of the adjustments.
C13_TrimActsOnHoriz ==
    Called("simulate_measurement") =>
        LET r == call.regime
            adj == adjustments[r]
            pitch(b) == PitchShift(adj.pitch_flats[b]) - PitchShift(adj.pitch_flats["YEL"])
            trim(b) == TrimShift(adj.trim_mm[b]) - TrimShift(adj.trim_mm["YEL"])
            base(b) == BASE_TRACK[r][b] - BASE_TRACK[r]["YEL"]
        IN /\ (r = "GROUND" /\ call.noise = NoNoise)
                  => \A b \in Blades : ret.track_mm[b] = base(b) + pitch(b)
           /\ (r = "HORIZ" /\ call.noise = NoNoise)
                  => \A b \in Blades : ret.track_mm[b] = base(b) + pitch(b) + trim(b)
           /\ ret = simulate_measurement(call.run, r, OnlySlot(r), aircraft, call.noise)

\* HORIZ measured without noise, with the reference blade's tab moved
C13_Witness ==
    /\ Called("simulate_measurement")
    /\ call.regime = "HORIZ"
    /\ call.noise = NoNoise
    /\ adjustments["HORIZ"].trim_mm["YEL"] # 0
    /\ ret.track_mm["BLU"] = BASE_TRACK["HORIZ"]["BLU"] - TrimShift(adjustments["HORIZ"].trim_mm["YEL"])

\* C14: with all other adjustments zero, the BLU pitch-link adjustment of
\* GROUND set to +1.0 raises the noise-free GROUND track of BLU by 10 mm
\* over the zero-adjustment baseline.
C14_OneUnitTenMm ==
    (/\ Called("simulate_measurement")
     /\ call.regime = "GROUND"
     /\ call.noise = NoNoise
     /\ adjustments = [default_adjustments EXCEPT !["GROUND"].pitch_flats["BLU"] = 4])
        => ret.track_mm["BLU"] = BASE_TRACK["GROUND"]["BLU"] + 10 * TrackPerMm

\* C15 as stated: for the same regime, adjustments and noise, the runs use
\* their own baselines, so the measurement of run 2 or 3 differs from that
\* of run 1.
C15_BaselinePerRun ==
    (Called("simulate_measurement") /\ call.run # 1)
        => ret # simulate_measurement(1, call.regime, adjustments, aircraft, call.noise)

\* C15 amended: the run argument has no effect: for the same regime,
\* adjustments, aircraft and noise, every run returns the same Measurement,
\* built on the one baseline BASE_TRACK / BASE_BAL.
C15_RunIgnored ==
    Called("simulate_measurement") =>
        /\ \A n \in (1..3) \ {call.run} :
               ret = simulate_measurement(n, call.regime, adjustments, aircraft, call.noise)
        /\ (call.noise = NoNoise /\ adjustments = default_adjustments
              /\ call.regime # "HOVER")
               => /\ ret.track_mm = BASE_TRACK[call.regime]
                  /\ ret.balance.amp_ips = BASE_BAL[call.regime][1]

\* run 3 measured on the untouched aircraft shows the baseline of run 1
C15_Witness ==
    /\ Called("simulate_measurement")
    /\ call.run = 3
    /\ call.noise = NoNoise
    /\ adjustments = default_adjustments
    /\ ret.track_mm = BASE_TRACK[call.regime]

\* C12: the core never mutates its inputs: a call of simulate_measurement
\* leaves the adjustments (every slot) and the aircraft mapping as they were,
\* and a call of a limit lookup, regime_status, all_ok or a suggestion leaves
\* the measurements mapping and every Measurement in it as they were.
C12_InputsUntouched ==
    [][call'.fn \in CoreFns =>
           /\ adjustments' = adjustments
           /\ aircraft' = aircraft
           /\ meas' = meas]_vars

\* a hover measurement taken with settings changed and an aircraft weight
C12_Witness ==
    /\ Called("simulate_measurement")
    /\ call.regime = "HOVER"
    /\ adjustments # default_adjustments
    /\ "weight" \in DOMAIN aircraft
    /\ meas # NoMeas

\* C16: after any sequence of session actions each run holds at most one
\* Measurement per regime and at most three in all, under the keys GROUND,
\* HOVER, HORIZ only: the measurement under a key is the one of that regime,
\* and the keys are the regimes marked completed.
C16_OnePerRegime ==
    \A run \in DOMAIN vxp_runs :
        /\ DOMAIN vxp_runs[run] \subseteq Regimes
        /\ Cardinality(DOMAIN vxp_runs[run]) <= 3
        /\ \A r \in DOMAIN vxp_runs[run] : vxp_runs[run][r].regime = r
        /\ vxp_completed_by_run[run] = DOMAIN vxp_runs[run]

\* run 1 complete, and on run 2 a regime already acquired is selected again
C16_Witness ==
    /\ vxp_run = 2
    /\ DOMAIN vxp_runs[1] = Regimes
    /\ vxp_pending_regime \in DOMAIN vxp_runs[2]
    /\ vxp_acq_done
    /\ Cardinality(DOMAIN vxp_runs[2]) = 2

\* C17: after any sequence of session actions the current run and every run
\* with a measurement collection are in 1..3; the run changes only by a START
\* NEXT RUN button, by exactly +1, and never from run 3.
C17_RunInRange ==
    /\ [](vxp_run \in 1..3 /\ DOMAIN vxp_runs \subseteq 1..3)
    /\ [][vxp_run' # vxp_run =>
              /\ vxp_screen = "next_run_prompt"
              /\ vxp_screen' \in {"settings", "mr_menu"}
              /\ vxp_run < 3
              /\ vxp_run' = vxp_run + 1
              /\ DOMAIN vxp_runs' = DOMAIN vxp_runs \cup {vxp_run'}]_vars

\* the NEXT RUN prompt shown on the last run
C17_Witness ==
    /\ vxp_run = 3
    /\ vxp_screen = "next_run_prompt"
    /\ DOMAIN vxp_runs = 1..3

\* q is an integer nearest to n / d (d > 0)
Nearest(q, n, d) == 2 * Abs(n - q * d) <= d

\* the mapping without the keys ks
Without(m, ks) == [k \in DOMAIN m \ ks |-> m[k]]

\* C18: suggest_pitchlink returns, per blade, minus the mean of the blade's
\* track over those of GROUND and HOVER that are present, divided by 10 mm
\* per turn and rounded to the nearest quarter turn; a HORIZ measurement never
\* changes the result; the worked example gives BLU -0.5, GRN +0.25, YEL 0.
C18_PitchlinkMean ==
    Called("suggest_pitchlink") =>
        LET used == DOMAIN meas \cap {"GROUND", "HOVER"}
            n == Cardinality(used)
            total(b) == (IF "GROUND" \in used THEN meas["GROUND"].track_mm[b] ELSE 0)
                        + (IF "HOVER" \in used THEN meas["HOVER"].track_mm[b] ELSE 0)
        IN /\ used # {} =>
                  \A b \in Blades : Nearest(ret[b], -4 * total(b), n * 10 * TrackPerMm)
           /\ ret = suggest_pitchlink(Without(meas, {"HORIZ"}))
           /\ (/\ used = {"GROUND", "HOVER"}
               /\ meas["HOVER"].track_mm = Track(Mm(6), Mm(-3), 0, Mm(-4))
               /\ meas["GROUND"].track_mm = Track(Mm(4), Mm(-2), 0, Mm(-3)))
                  => ret["BLU"] = -2 /\ ret["GRN"] = 1 /\ ret["YEL"] = 0

\* the worked example, with a HORIZ measurement present as well
C18_Witness ==
    /\ Called("suggest_pitchlink")
    /\ DOMAIN meas = Regimes
    /\ meas["HOVER"].track_mm = Track(Mm(6), Mm(-3), 0, Mm(-4))
    /\ meas["GROUND"].track_mm = Track(Mm(4), Mm(-2), 0, Mm(-3))
    /\ meas["HORIZ"].track_mm["BLU"] # 0
    /\ ret["BLU"] = -2

\* C19: suggest_trimtabs computes each blade from the HORIZ measurement
\* only, as -track / 15 rounded to the nearest 0.25 and clamped: every value
\* is a multiple of 0.25 within [-5, +5], however large the track.
C19_TrimtabsClamped ==
    Called("suggest_trimtabs") =>
        /\ \A b \in Blades : ret[b] \in -20..20
        /\ "HORIZ" \in DOMAIN meas =>
               \A b \in Blades :
                   \E q \in -30..30 :
                       /\ Nearest(q, -4 * meas["HORIZ"].track_mm[b], 15 * TrackPerMm)
                       /\ ret[b] = IF q > 20 THEN 20 ELSE IF q < -20 THEN -20 ELSE q
        /\ ret = suggest_trimtabs(Without(meas, {"GROUND", "HOVER"}))

\* a HORIZ track of 100 mm, clamped, with the other regimes measured too
C19_Witness ==
    /\ Called("suggest_trimtabs")
    /\ DOMAIN meas = Regimes
    /\ meas["HORIZ"].track_mm["BLU"] = Mm(100)
    /\ meas["GROUND"].track_mm["BLU"] # Mm(100)
    /\ ret["BLU"] = -20
    /\ ret["GRN"] = 20

\* the balance readings put in the place of one that should not matter
OtherReadings ==
    {BalanceReading(0, 0, BO105_DISPLAY_RPM), BalanceReading(4000, Deg(100), BO105_DISPLAY_RPM)}

\* C20: suggest_weight takes the amplitude, the phase and IPS_PER_GRAM from
\* HOVER when it is present, else from GROUND, else from HORIZ; changing the
\* balance reading of a regime that does not govern never changes the result.
C20_GoverningRegime ==
    (Called("suggest_weight") /\ HasGoverning) =>
        LET g == Governing.regime
            amp == Governing.balance.amp_ips
            grams == 10 * RoundHalfEven(amp, 10 * IPS_PER_GRAM[g])
        IN /\ ret = suggest_weight([k \in {g} |-> Governing])
           /\ \A r \in (DOMAIN meas \cap Regimes) \ {g} : \A other \in OtherReadings :
                  ret = suggest_weight([meas EXCEPT ![r].balance = other])
           /\ Governing.balance.phase_deg = 0 =>
                  ret["YEL"] = IF grams > 600 THEN 600 ELSE grams

\* 0.2 IPS at 12 o'clock in HOVER, with GROUND measured too: 200 g by the
\* hover scale (the ground scale gives 80 g)
C20_Witness ==
    /\ Called("suggest_weight")
    /\ {"HOVER", "GROUND"} \subseteq DOMAIN meas
    /\ Governing.regime = "HOVER"
    /\ Governing.balance.amp_ips = 2000
    /\ Governing.balance.phase_deg = 0
    /\ ret["YEL"] = 200

\* the two blades whose clock positions bracket the angle p in [0, 360)
QuadrantBlades(p) ==
    CASE p < 90 * UnitsPerDeg -> {"YEL", "RED"}
      [] p >= 90 * UnitsPerDeg /\ p < 180 * UnitsPerDeg -> {"RED", "BLU"}
      [] p >= 180 * UnitsPerDeg /\ p < 270 * UnitsPerDeg -> {"BLU", "GRN"}
      [] p >= 270 * UnitsPerDeg -> {"GRN", "YEL"}

\* C21: in the result of suggest_weight only the two blades of the quadrant
\* of the governing phase can be nonzero ([0,90) YEL RED, [90,180) RED BLU,
\* [180,270) BLU GRN, [270,360) GRN YEL); the other two are 0; a phase outside
\* [0,360) is wrapped modulo 360 first.  The blades of the quadrant are the
\* ones that do receive the weight: up to 0.50 IPS, each of the two whose
\* share of the imbalance is 10 g or more is nonzero.
C21_QuadrantBladesOnly ==
    (Called("suggest_weight") /\ HasGoverning) =>
        LET wrapped == Governing.balance.phase_deg % (360 * UnitsPerDeg)
            amp == Governing.balance.amp_ips
            k == IPS_PER_GRAM[Governing.regime]
            share(b) == amp * Cos(wrapped - BLADE_CLOCK_DEG[b])
        IN /\ NonZero(ret) \subseteq QuadrantBlades(wrapped)
           /\ \A b \in Blades \ QuadrantBlades(wrapped) : ret[b] = 0
           /\ amp <= 5000 =>
                  \A b \in QuadrantBlades(wrapped) :
                      share(b) >= 10 * k * TrigScale => ret[b] > 0

\* a phase of 400 degrees, wrapped to 40: weights on YEL and RED
C21_Witness ==
    /\ Called("suggest_weight")
    /\ HasGoverning
    /\ Governing.balance.phase_deg = 400 * UnitsPerDeg
    /\ NonZero(ret) = {"YEL", "RED"}

\* the balance vector (x to 3 o'clock, y to 12 o'clock) of regime r with the
\* bolt weights g: the baseline, less the weights along the blades' directions
\* YEL (0, 1), RED (1, 0), BLU (0, -1), GRN (-1, 0)
ExpectedVector(r, g) ==
    LET amp == BASE_BAL[r][1]
        theta == BASE_BAL[r][2]
        perGram == IF r = "GROUND" THEN 25 ELSE 10
    IN <<RoundHalfEven(amp * Sin(theta), TrigScale) - perGram * (g["RED"] - g["GRN"]),
         RoundHalfEven(amp * Cos(theta), TrigScale) - perGram * (g["YEL"] - g["BLU"])>>

\* C22: noise aside, the balance vector measured by simulate_measurement is
\* the regime's baseline vector minus, for every blade, IPS_PER_GRAM[regime] x
\* bolt_g[b] along the blade's clock direction (0.0025 IPS/g for GROUND,
\* 0.0010 IPS/g for HOVER and HORIZ): a weight moves the vector opposite to
\* its blade, and equal weights on the four blades leave it unchanged.
C22_WeightOpposesBlade ==
    (Called("simulate_measurement") /\ call.noise = NoNoise) =>
        LET r == call.regime
            g == adjustments[r].bolt_g
            v == ExpectedVector(r, g)
        IN /\ ret.balance.amp_ips = Isqrt(v[1] * v[1] + v[2] * v[2])
           /\ ret.balance = PolarReading(v)
           /\ (\A b \in Blades : g[b] = g["YEL"]) =>
                  /\ ret.balance.amp_ips = BASE_BAL[r][1]
                  /\ ret.balance.phase_deg = BASE_BAL[r][2]

\* 500 g on BLU in hover turn the baseline of 0.25 IPS at 6 o'clock over to
\* 0.25 IPS at 12 o'clock
C22_Witness ==
    /\ Called("simulate_measurement")
    /\ call.noise = NoNoise
    /\ call.regime = "HOVER"
    /\ adjustments["HOVER"].bolt_g["BLU"] = 500
    /\ ret.balance.amp_ips = 2500
    /\ ret.balance.phase_deg = 0

\* the four equal weights of the GROUND slot, measured
C22_WitnessEqual ==
    /\ Called("simulate_measurement")
    /\ call.noise = NoNoise
    /\ call.regime = "GROUND"
    /\ \A b \in Blades : adjustments["GROUND"].bolt_g[b] = 100
    /\ ret.balance.amp_ips = 4500

\* the measurement of the same call with no aircraft passed
WithoutAircraft ==
    simulate_measurement(call.run, call.regime, adjustments, NoAircraft, call.noise)

Weighted == "weight" \in DOMAIN aircraft /\ aircraft.weight > 0

\* C23: the aircraft weight acts on HOVER only: GROUND and HORIZ measurements
\* do not depend on the aircraft argument; for HOVER every non-YEL track value
\* is multiplied by one common factor, within [0.85, 1.15] for every weight
\* > 0 and equal to 1 when the aircraft is absent or its weight is <= 0.  The
\* balance reading never depends on the aircraft.
C23_HoverFactor ==
    Called("simulate_measurement") =>
        /\ call.regime # "HOVER" => ret = WithoutAircraft
        /\ ~Weighted => ret = WithoutAircraft
        /\ ret.balance = WithoutAircraft.balance
        /\ (call.regime = "HOVER" /\ Weighted) =>
               \E f \in 850..1150 :
                   /\ aircraft.weight >= 5000 => f = 850
                   /\ aircraft.weight = 2500 => f = 1000
                   /\ aircraft.weight < 2500 => f > 1000
                   /\ \A b \in Blades \ {"YEL"} :
                          Nearest(ret.track_mm[b], WithoutAircraft.track_mm[b] * f, 1000)

\* a heavy aircraft in hover: the BLU track shrinks to 85 %
C23_Witness ==
    /\ Called("simulate_measurement")
    /\ call.regime = "HOVER"
    /\ call.noise = NoNoise
    /\ Weighted
    /\ aircraft.weight = 9000
    /\ adjustments = default_adjustments
    /\ ret.track_mm["BLU"] < BASE_TRACK["HOVER"]["BLU"]
    /\ Nearest(ret.track_mm["BLU"], 850 * BASE_TRACK["HOVER"]["BLU"], 1000)

\* C24: when the balance vector of simulate_measurement has an amplitude that
\* is numerically zero (bolt weights that cancel the baseline, no noise), the
\* phase_deg returned is 0 and a Measurement is returned, no error.
C24_ZeroVectorPhaseZero ==
    (Called("simulate_measurement") /\ ret.balance.amp_ips = 0) =>
        /\ ret.balance.phase_deg = 0
        /\ ret.regime = call.regime
        /\ DOMAIN ret.track_mm = Blades

\* 250 g on BLU cancel the hover baseline of 0.25 IPS at 6 o'clock
C24_Witness ==
    /\ Called("simulate_measurement")
    /\ call.regime = "HOVER"
    /\ call.noise = NoNoise
    /\ adjustments["HOVER"].bolt_g["BLU"] = 250
    /\ ret.balance.amp_ips = 0
    /\ ret.balance.phase_deg = 0

\* C25: the binary check and the three-way status never disagree: all_ok is
\* true exactly when GROUND, HOVER and HORIZ are all present and regime_status
\* is "OK" for each of them; every acceptance limit is no larger than the
\* matching procedural limit, for track and for balance, in every regime.
C25_AllOkIsThreeOk ==
    /\ Called("all_ok") =>
           (ret <=> /\ Regimes \subseteq DOMAIN meas
                    /\ \A r \in Regimes : regime_status(r, Get(meas, r)) = "OK")
    /\ \A r \in Regimes :
           /\ acceptance_track_limit(r) <= procedural_track_limit(r)
           /\ acceptance_balance_limit(r) <= procedural_balance_limit(r)

\* the three regimes measured, one of them one unit above its acceptance
\* limit for balance: all_ok is false
C25_Witness ==
    /\ Called("all_ok")
    /\ ~ret
    /\ Regimes \subseteq DOMAIN meas
    /\ \E r \in Regimes :
           /\ meas[r].balance.amp_ips = balance_limit(r) + 1
           /\ \A o \in Regimes \ {r} : Classified(o, meas[o]) = "OK"

\* the order OK < WARN < STOP
Rank(status) == CASE status = "OK" -> 0 [] status = "WARN" -> 1 [] status = "STOP" -> 2

\* by how much a metric is raised: one unit, and steps across the bands
TrackRaises == {1, 5 * TrackPerMm, 10 * TrackPerMm, 40 * TrackPerMm}
AmpRaises == {1, 500, 1000, 2500, 5000}

\* a blade with the highest track of m
Highest(m) == CHOOSE a \in Blades : \A b \in Blades : m.track_mm[b] <= m.track_mm[a]

\* C26: for a regime in GROUND, HOVER, HORIZ, regime_status is monotone in the
\* order OK < WARN < STOP: a larger track spread, or a larger amplitude, with
\* the other metric held fixed, never lowers the status.
C26_StatusMonotone ==
    (Called("regime_status") /\ call.regime \in Regimes /\ call.key \in DOMAIN meas) =>
        LET m == meas[call.key]
            wider(d) == [m EXCEPT !.track_mm[Highest(m)] = @ + d]
            stronger(a) == [m EXCEPT !.balance.amp_ips = @ + a]
        IN /\ \A d \in TrackRaises :
                  /\ Spread(wider(d)) = Spread(m) + d
                  /\ Rank(regime_status(call.regime, <<wider(d)>>)) >= Rank(ret)
           /\ \A a \in AmpRaises :
                  Rank(regime_status(call.regime, <<stronger(a)>>)) >= Rank(ret)

\* "WARN" in hover, one unit above the acceptance spread: 10 mm more is "STOP"
C26_Witness ==
    /\ Called("regime_status")
    /\ call.regime = "HOVER"
    /\ call.key \in DOMAIN meas
    /\ Spread(meas[call.key]) = track_limit("HOVER") + 1
    /\ meas[call.key].balance.amp_ips = 0
    /\ ret = "WARN"
    /\ Classified("HOVER", [meas[call.key] EXCEPT
                               !.track_mm[Highest(meas[call.key])] = @ + 10 * TrackPerMm])
           = "STOP"

\* C27: the pitch-link suggestion and the simulator use the same unit: with
\* zero noise, after the values of suggest_pitchlink are added to the
\* pitch-link settings of GROUND and HOVER and both are measured again, every
\* blade's GROUND / HOVER average track is within 1.25 mm of zero.
C27_PitchlinkRoundTrip ==
    (Called("feed_pitchlink") /\ {"GROUND", "HOVER"} \subseteq DOMAIN meas) =>
        \A b \in Blades :
            Abs(meas["GROUND"].track_mm[b] + meas["HOVER"].track_mm[b])
                <= 2 * ((5 * TrackPerMm) \div 4)

\* C28: with zero noise, after the grams of suggest_weight are added to the
\* bolt weights of the governing regime's slot and that regime is measured
\* again, the amplitude is never larger than the one the suggestion was
\* computed from (amplitudes above 0.50 IPS and weights clamped at 600 g
\* included).
C28_WeightNeverWorse ==
    (Called("feed_weight") /\ call.regime \in DOMAIN meas) =>
        meas[call.regime].balance.amp_ips <= ret.from[call.regime].balance.amp_ips

\* 0.75 IPS in hover: one weight, clamped at 600 g, leaves 0.15 IPS
C28_Witness ==
    /\ Called("feed_weight")
    /\ call.regime = "HOVER"
    /\ "HOVER" \in DOMAIN meas
    /\ ret.from["HOVER"].balance.amp_ips = 7500
    /\ ret.suggested["BLU"] = 600
    /\ meas["HOVER"].balance.amp_ips = 1500

\* C29: the SETTINGS editor and the generator agree on the adjustments
\* structure: every key the SETTINGS screen reads exists in the structure of
\* default_adjustments(), so SETTINGS opens (and can be closed) on a fresh
\* session, and the pitch-link value is written under the key that
\* simulate_measurement reads.
C29_SettingsKeysAgree ==
    vxp_screen = "settings" =>
        /\ \A r \in Regimes : SETTINGS_KEYS \subseteq DOMAIN adjustments[r]
        /\ "mr_menu" \in Targets("settings")
        /\ SETTINGS_KEYS = Fields

\* C30: after any sequence of session actions, for every run the regimes
\* marked completed are the regimes with a stored Measurement in that run; a
\* regime is marked in the very step that stores its measurement, and neither
\* the mark nor the measurement is ever removed.
C30_CompletedIsStored ==
    /\ [](/\ DOMAIN vxp_completed_by_run = DOMAIN vxp_runs
          /\ \A run \in DOMAIN vxp_runs :
                 vxp_completed_by_run[run] = DOMAIN vxp_runs[run])
    /\ [][\A run \in DOMAIN vxp_runs :
              /\ run \in DOMAIN vxp_runs'
              /\ run \in DOMAIN vxp_completed_by_run'
              /\ vxp_completed_by_run[run] \subseteq vxp_completed_by_run'[run]
              /\ \A r \in DOMAIN vxp_runs[run] :
                     /\ r \in DOMAIN vxp_runs'[run]
                     /\ vxp_runs'[run][r] = vxp_runs[run][r]
              /\ vxp_completed_by_run'[run] \ vxp_completed_by_run[run]
                     = DOMAIN vxp_runs'[run] \ DOMAIN vxp_runs[run]]_vars

\* run 2 started with two regimes of run 1 acquired; one regime of run 2
\* acquired since, and the NEXT RUN prompt open again
C30_Witness ==
    /\ vxp_run = 2
    /\ vxp_screen = "next_run_prompt"
    /\ vxp_completed_by_run[1] = {"GROUND", "HORIZ"}
    /\ DOMAIN vxp_runs[1] = {"GROUND", "HORIZ"}
    /\ vxp_completed_by_run[2] = {"HOVER"}
    /\ DOMAIN vxp_runs[2] = {"HOVER"}

====
